---- MODULE Spec2Model ----
(***************************************************************************)
(* Model of the Prior-AI analysis workflow engine:                         *)
(*   - RecommendationGenerator.generate (ml_services/recommender.py)       *)
(*   - OrchestrateConductor of services/orchestrate.py (the exported one)  *)
(*     and of services/orchestrate_v3_1.py                                 *)
(*   - the background task run_analysis_workflow (api/v1/analyses.py)      *)
(*                                                                         *)
(* Numbers.  Similarity scores are carried in tenths of a point            *)
(* (850 = 85.0).  Novelty values are carried in hundredths of a point      *)
(* (3050 = 30.5), which makes 0.7 * score exact: 0.7 * (s/10) = 7*s/100.   *)
(* Python's None is the empty tuple <<>>, a present value v is <<v>>.      *)
(***************************************************************************)
EXTENDS Integers, Sequences, FiniteSets, TLC

VARIABLES
    impl,            \* which OrchestrateConductor class the task constructs
    config,          \* environment configuration read by the constructors
    pc,              \* position of the background task / run_analysis
    strategy,        \* strategy the run is executing
    stage,           \* index in StageOrder of the stage inside _run_skill
    logs,            \* orchestrate_logs rows of the analysis, creation order
    analysis,        \* the persisted Analysis row
    patentability,   \* value returned by assess_patentability
    scored_patents,  \* list handed to RecommendationGenerator.generate
    recommendation,  \* value returned by RecommendationGenerator.generate
    patents,         \* list returned by PatentSearcher.search (patent ids)
    results,         \* value returned by run_analysis
    exc,             \* exception in flight
    document_text,   \* text returned by DocumentParser.parse
    responses,       \* what the watsonx.ai call did for each patent of the batch
    scored_batch,    \* list returned by score_multiple_patents
    calls,           \* capability calls made by the run, in order
    patent_rows,     \* Patent rows persisted for the analysis
    orchestrate_call,\* the execute_workflow call of the run and what it returned
    tasks,           \* several analyses: the background task of each analysis id
    db               \* several analyses: the tables shared by all tasks

vars == <<impl, config, pc, strategy, stage, logs, analysis, patentability,
          patents, scored_patents, recommendation, results, exc,
          document_text, responses, scored_batch, calls, patent_rows,
          orchestrate_call, tasks, db>>

\* ---------------------------------------------------------------- bounds
MaxPatents == 3
LargeBatch == 22
MaxTail == 3

\* Similarity scores (tenths) a scorer response may carry: float(...) of the
\* model response is not range-checked, so values outside 0..100 occur.
ScoreValues == {-50, 400, 429, 720, 725, 850, 1500}

ErrMsgs == {"timeout", "bad response"}

\* text DocumentParser.parse returns: nothing extractable, or some text
DocumentTexts == {"", "disclosure"}

None == <<>>
Some(v) == <<v>>

\* ------------------------------------------------- recommender.py (pure)
HighSimThreshold == 700
TopWeight == 7
HighSimPenalty == 500
PursueThreshold == 7000
ReconsiderThreshold == 4000
MaxNovelty == 10000

CandidateLists == UNION {[1..n -> ScoreValues] : n \in 0..MaxPatents}

IsSortedDesc(s) == \A i \in 1..(Len(s) - 1) : s[i] >= s[i + 1]

SortedLists(n) == {s \in [1..n -> ScoreValues] : IsSortedDesc(s)}

\* mutant: every candidate counts as highly similar
HighSimCountAll(scored) == Len(scored)

HighSimCount(scored) == Cardinality({i \in DOMAIN scored : scored[i] > HighSimThreshold})

Max2(a, b) == IF a >= b THEN a ELSE b

Min2(a, b) == IF a <= b THEN a ELSE b

Clamp(n) == Max2(0, Min2(MaxNovelty, n))

\* mutant: the weight is applied to the last candidate instead of the first
RawNoveltyLastCandidate(scored) ==
    MaxNovelty - TopWeight * scored[Len(scored)] - HighSimPenalty * HighSimCount(scored)

\* novelty = 100 - (top_score * 0.7) - (high_sim_count * 5), then clamped
RawNovelty(scored) == MaxNovelty - TopWeight * scored[1] - HighSimPenalty * HighSimCount(scored)

\* mutant: the weight term is clamped before the penalty is subtracted
NoveltyClampFirst(scored) ==
    Clamp(MaxNovelty - TopWeight * scored[1]) - HighSimPenalty * HighSimCount(scored)

Novelty(scored) == Clamp(RawNovelty(scored))

\* round(novelty, 1): result in hundredths, a multiple of 10.  A value that
\* lies exactly halfway is rounded by the binary floating point value the
\* subtraction produced (44.25 -> 44.2, 99.65 -> 99.7), so either neighbour
\* can come out: tieUp is that outcome.
Round1(n, tieUp) ==
    LET q == n \div 10
        r == n % 10
    IN  IF r > 5 \/ (r = 5 /\ tieUp) THEN 10 * (q + 1) ELSE 10 * q

Band(novelty) ==
    IF novelty >= PursueThreshold THEN "pursue"
    ELSE IF novelty >= ReconsiderThreshold THEN "reconsider"
    ELSE "reject"

BandReasoning(novelty) ==
    IF novelty >= PursueThreshold THEN <<"High novelty">>
    ELSE IF novelty >= ReconsiderThreshold THEN <<"Medium novelty">>
    ELSE <<"Low novelty">>

Generate(scored, tieUp) ==
    IF scored = <<>>
    THEN [noveltyScore |-> MaxNovelty, recommendation |-> "pursue",
          reasoning |-> <<"No similar prior art found">>]
    ELSE [noveltyScore |-> Round1(Novelty(scored), tieUp),
          recommendation |-> Band(Novelty(scored)),
          reasoning |-> BandReasoning(Novelty(scored))]

\* ------------------------------------------- similarity_scorer.py (pure)
\* similarity scores (tenths) a live model response carries in the pipeline;
\* float(result.get('similarity_score', 50)) is not range-checked
ProviderScores == {-50, 429, 850, 1500}

StubScore == 650
DefaultScore == 500
FallbackCap == 1000
PointsPerWord == 100
TopN == 20

\* len(common_words) of patent p: words shared by the innovations text and
\* the patent's title and abstract (input data of the fallback)
CommonWords(p) == (5 * p) % 13

\* what the environment does when the live model is asked about one patent:
\* JSON with a score, JSON without the key, text json.loads/float rejects,
\* or generate_text raising
LiveOutcomes ==
    {[kind |-> "score", value |-> v, concepts |-> "model"] : v \in ProviderScores}
      \cup {[kind |-> k, value |-> 0, concepts |-> "model"] :
               k \in {"no_score", "unparsable", "call_failed"}}

\* stub mode: the model is never asked
NotAsked == [kind |-> "not_asked", value |-> 0, concepts |-> ""]

\* WatsonxAI.__init__: stub unless key, project id and SDK gave a model
AiUseStub(c) == ~(c.api_key /\ c.watsonx_ai)

\* WatsonxAI._stub_generate for a similarity prompt
StubGenerate == [kind |-> "score", value |-> StubScore, concepts |-> "Common technical domain"]

\* WatsonxAI.generate: the stub in stub mode, the model's text otherwise; an
\* exception of generate_text is caught and answered with the stub text
WatsonxGenerate(c, o) == IF AiUseStub(c) \/ o.kind = "call_failed" THEN StubGenerate ELSE o

\* _keyword_matching_fallback: min(100, len(common_words) * 10)
KeywordMatchingFallback(p) ==
    [similarityScore |-> Min2(FallbackCap, CommonWords(p) * PointsPerWord),
     overlappingConcepts |-> "Keyword analysis fallback"]

\* score_similarity for patent p when the environment does o
ScoreSimilarity(c, p, o) ==
    LET response == WatsonxGenerate(c, o)
    IN  IF response.kind = "unparsable" THEN KeywordMatchingFallback(p)
        ELSE IF response.kind = "no_score"
             THEN [similarityScore |-> DefaultScore, overlappingConcepts |-> response.concepts]
             ELSE [similarityScore |-> response.value, overlappingConcepts |-> response.concepts]

\* {**patent, **score_data}
Merge(p, score_data) ==
    [patent |-> p, similarityScore |-> score_data.similarityScore,
     overlappingConcepts |-> score_data.overlappingConcepts]

\* mutant: the entry is appended, the list is left in input order
InsertAtEnd(t, e) == Append(t, e)

\* one step of the stable descending sort: e goes behind every entry whose
\* score is at least its own
InsertDesc(t, e) ==
    LET k == Cardinality({i \in DOMAIN t : t[i].similarityScore >= e.similarityScore})
    IN  SubSeq(t, 1, k) \o <<e>> \o SubSeq(t, k + 1, Len(t))

RECURSIVE SortDesc(_)
\* scored.sort(key=lambda x: x['similarityScore'], reverse=True)
SortDesc(s) ==
    IF s = <<>> THEN <<>>
    ELSE InsertDesc(SortDesc(SubSeq(s, 1, Len(s) - 1)), s[Len(s)])

\* score_multiple_patents: one score_similarity per patent, merge, sort
ScoreMultiplePatents(c, pats, resp) ==
    SortDesc([i \in 1..Len(pats) |-> Merge(pats[i], ScoreSimilarity(c, pats[i], resp[i]))])

\* x['similarityScore'] of each entry, as generate reads the list
Scores(entries) == [i \in 1..Len(entries) |-> entries[i].similarityScore]

\* mutant: the slice keeps the whole list
TakeAll(s, n) == s

\* s[:n]
Take(s, n) == SubSeq(s, 1, Min2(n, Len(s)))

\* the Patent row built from one entry of results['patents']
PatentRow(e) == [patent_id |-> e.patent, similarity_score |-> e.similarityScore]

Call(name, p) == [capability |-> name, patent |-> p]

\* batch sizes the search returns: every small one, and two around TopN
BatchSizes == (0..MaxPatents) \cup {LargeBatch - 3, LargeBatch}

\* environment behaviours enumerated for a batch of n patents: every
\* combination for a small batch, the two uniform failures for a large one
ResponseVectors(c, n) ==
    IF AiUseStub(c) THEN {[i \in 1..n |-> NotAsked]}
    ELSE IF n <= MaxPatents THEN [1..n -> LiveOutcomes]
    ELSE {[i \in 1..n |-> o] : o \in {x \in LiveOutcomes : x.kind \in {"unparsable", "call_failed"}}}

\* ------------------------------------------------------------ data model
StageOrder == <<"assess_patentability", "extract_claims", "search_patents",
                "score_similarity", "generate_recommendation">>

Stages == {StageOrder[i] : i \in DOMAIN StageOrder}

\* models/analysis.py: a new row is "processing", every result column NULL
NewAnalysis ==
    [status |-> "processing", is_patentable |-> None, extracted_claims |-> None,
     novelty_score |-> None, recommendation |-> None, reasoning |-> None]

\* models/orchestrate_log.py
NewLog(skill) == [skill_name |-> skill, status |-> "started", error_message |-> None]

ErrorLog(text) == [skill_name |-> "workflow_error", status |-> "failed", error_message |-> text]

\* _log_error: one workflow_error row, written as failed
LogError(l, text) == Append(l, ErrorLog(text))

\* mutant: the success branch forgets to update the row
CompleteLogForgotten(l) == l

\* _run_skill, success branch: the row it created becomes completed
CompleteLog(l) == [l EXCEPT ![Len(l)].status = "completed"]

\* mutant: the except branch marks the row failed but drops str(e)
FailLogNoMessage(l, msg) == [l EXCEPT ![Len(l)].status = "failed"]

\* _run_skill, except branch: the row it created becomes failed with str(e)
FailLog(l, msg) == [l EXCEPT ![Len(l)].status = "failed", ![Len(l)].error_message = Some(msg)]

\* mutant: the failure handling resets the row before marking it failed
MarkFailedRollsBack(a, e) ==
    [NewAnalysis EXCEPT !.status = "failed", !.reasoning = <<"Analysis failed: ">> \o e]

\* analyses.py 183-187: status failed, reasoning f"Analysis failed: {str(e)}"
MarkFailed(a, e) == [a EXCEPT !.status = "failed", !.reasoning = <<"Analysis failed: ">> \o e]

\* mutant: the gate lets everything but an explicit false through
TruthyNotFalse(o) == o # Some(FALSE)

\* mutant: the gate tests "is not None" instead of truthiness
TruthyIsNotNone(o) == o # None

\* Python truthiness of patentability.get('isPatentable')
Truthy(o) == o = Some(TRUE)

\* WatsonxOrchestrateClient.is_configured
IsConfigured(c) == c.api_key /\ c.orchestration_id

\* WatsonxOrchestrateClient.__init__: stub unless key, id and SDK are present
UseStub(c) == ~(c.api_key /\ c.orchestration_id /\ c.sdk_installed)

\* mutant: the USE_WATSONX_ORCHESTRATE switch is not consulted
UsesOrchestrateIgnoresSwitch(i, c) == IsConfigured(c)

\* the branch at the top of run_analysis
UsesOrchestrate(i, c) ==
    IF i = "orchestrate" THEN c.use_orchestrate /\ IsConfigured(c) ELSE IsConfigured(c)

\* _stub_orchestration: the fixed bundle, three top_patents
StubOrchestration ==
    [status |-> "completed", is_stub |-> TRUE, is_patentable |-> TRUE,
     overall_novelty_score |-> 72, top_patents |-> 3]

\* _parse_orchestration_response of the placeholder result: every section is
\* empty, so orchestrate.py reads is_patentable True, score 0, no patents
PlaceholderResponse ==
    [status |-> "completed", is_stub |-> FALSE, is_patentable |-> TRUE,
     overall_novelty_score |-> 0, top_patents |-> 0]

\* mutant: the stub scores an empty disclosure text as not novel
ExecuteWorkflowReadsText(c, text, invocation_fails) ==
    IF UseStub(c) \/ invocation_fails
    THEN [StubOrchestration EXCEPT !.overall_novelty_score = IF text = "" THEN 0 ELSE 72]
    ELSE PlaceholderResponse

\* mutant: a failing real invocation is reported instead of being stubbed
ExecuteWorkflowReportsError(c, text, invocation_fails) ==
    IF UseStub(c) THEN StubOrchestration
    ELSE IF invocation_fails THEN [PlaceholderResponse EXCEPT !.status = "error"]
    ELSE PlaceholderResponse

\* execute_workflow(disclosure_text, ...): the stub bundle in stub mode or
\* when a statement of the try block raises, the parsed placeholder otherwise
ExecuteWorkflow(c, text, invocation_fails) ==
    IF UseStub(c) \/ invocation_fails THEN StubOrchestration ELSE PlaceholderResponse

\* results['patents'] of the delegated strategy as run_analysis_workflow
\* reads it: the entries carry neither 'patentId' nor 'similarityScore', so
\* the defaults '' (here 0) and 0.0 are read
DelegatedPatents(r) ==
    [i \in 1..r.top_patents |->
        [patent |-> 0, similarityScore |-> 0, overlappingConcepts |-> ""]]

\* recommendation vocabulary of _run_orchestrate_workflow
OrchestrateRecommendation(r) ==
    IF ~r.is_patentable THEN "reject"
    ELSE IF r.overall_novelty_score >= 70 THEN "proceed"
    ELSE IF r.overall_novelty_score >= 50 THEN "revise"
    ELSE "reject"

OrchestrateReasoning(r) ==
    IF ~r.is_patentable THEN <<"Disclosure lacks patentable elements">>
    ELSE IF r.overall_novelty_score >= 70 THEN <<"High novelty score">>
    ELSE IF r.overall_novelty_score >= 50 THEN <<"Moderate novelty">>
    ELSE <<"Low novelty score">>

\* the dict run_analysis returns on the early exit; keys it lacks read as None
GatedResults(i) ==
    [extractedClaims |-> None, patents |-> <<>>, noveltyScore |-> None,
     recommendation |-> Some("reject"),
     reasoning |-> IF i = "orchestrate" THEN <<"Based on patentability assessment">> ELSE None,
     skipPriorArt |-> TRUE]

GatedReasoning(i) ==
    IF i = "orchestrate"
    THEN <<"Disclosure appears to be publishable research but not patentable. See patentability assessment for details.">>
    ELSE <<"Disclosure appears to be publishable research but not patentable.">>

\* ------------------------------------------------------------------ Init
Configs == [use_orchestrate : BOOLEAN, api_key : BOOLEAN,
            orchestration_id : BOOLEAN, sdk_installed : BOOLEAN,
            watsonx_ai : BOOLEAN]

Init ==
    /\ impl \in {"orchestrate", "orchestrate_v3_1"}
    /\ config \in Configs
    /\ pc = "wf_start"
    /\ strategy = "none"
    /\ stage = 0
    /\ logs = <<>>
    /\ analysis = NewAnalysis
    /\ patentability = None
    /\ patents = <<>>
    /\ scored_patents = <<>>
    /\ recommendation = None
    /\ results = None
    /\ exc = None
    /\ document_text = None
    /\ responses = <<>>
    /\ scored_batch = <<>>
    /\ calls = <<>>
    /\ patent_rows = <<>>
    /\ orchestrate_call = None
    /\ tasks = <<>>
    /\ db = <<>>

\* ------------------------------------------------ run_analysis_workflow
\* analyses.py 120-142: load the row, parse the document, build the conductor
RunAnalysisWorkflowStart ==
    /\ pc = "wf_start"
    /\ \/ /\ \E text \in DocumentTexts : document_text' = Some(text)
          /\ pc' = "run_analysis"
          /\ exc' = exc
       \/ \E m \in ErrMsgs :
          /\ exc' = Some(m)
          /\ pc' = "wf_except"
          /\ document_text' = document_text
    /\ UNCHANGED <<impl, config, strategy, stage, logs, analysis, patentability,
                   patents, scored_patents, recommendation, results,
                   responses, scored_batch, calls, patent_rows,
                   orchestrate_call, tasks, db>>

\* analyses.py 144-177: copy the returned dict onto the row, mark completed
RunAnalysisWorkflowSave ==
    /\ pc = "wf_save"
    /\ patent_rows' = LET top == Take(results[1].patents, TopN)
                      IN  [i \in 1..Len(top) |-> PatentRow(top[i])]
    /\ analysis' = [analysis EXCEPT
                      !.extracted_claims = Some(results[1].extractedClaims),
                      !.novelty_score = results[1].noveltyScore,
                      !.recommendation = results[1].recommendation,
                      !.reasoning = results[1].reasoning,
                      !.status = "completed"]
    /\ pc' = "done"
    /\ UNCHANGED <<impl, config, strategy, stage, logs, patentability, patents,
                   scored_patents, recommendation, results, exc,
                   document_text, responses, scored_batch, calls,
                   orchestrate_call, tasks, db>>

\* analyses.py 144-177, 179: a statement of the save step raises (the commit
\* at line 177); nothing of the step is persisted
RunAnalysisWorkflowSaveRaises ==
    /\ pc = "wf_save"
    /\ \E m \in ErrMsgs : exc' = Some(m)
    /\ pc' = "wf_except"
    /\ UNCHANGED <<impl, config, strategy, stage, logs, analysis, patentability,
                   patents, scored_patents, recommendation, results,
                   document_text, responses, scored_batch, calls, patent_rows,
                   orchestrate_call, tasks, db>>

\* analyses.py 179-192: any exception marks the row failed
RunAnalysisWorkflowExcept ==
    /\ pc = "wf_except"
    /\ analysis' = MarkFailed(analysis, exc)
    /\ pc' = "done"
    /\ UNCHANGED <<impl, config, strategy, stage, logs, patentability, patents,
                   scored_patents, recommendation, results, exc,
                   document_text, responses, scored_batch, calls, patent_rows,
                   orchestrate_call, tasks, db>>

\* ------------------------------------------------- strategy selection
\* orchestrate.py 107-115, orchestrate_v3_1.py 92-97
RunAnalysis ==
    /\ pc = "run_analysis"
    /\ IF UsesOrchestrate(impl, config)
       THEN /\ strategy' = "delegated"
            /\ pc' = "delegated"
            /\ stage' = stage
       ELSE /\ strategy' = "direct"
            /\ pc' = "begin_skill"
            /\ stage' = 1
    /\ UNCHANGED <<impl, config, logs, analysis, patentability, patents,
                   scored_patents, recommendation, results, exc,
                   document_text, responses, scored_batch, calls, patent_rows,
                   orchestrate_call, tasks, db>>

\* ----------------------------------------------------------- _run_skill
\* the method each stage's skill_function calls
Capability == <<"assess_patentability", "extract", "search",
                "score_multiple_patents", "generate">>

\* calls made by a stage whose skill_function returned
SkillCalls(st, pats) ==
    <<Call(Capability[st], 0)>>
      \o (IF st = 4 THEN [i \in 1..Len(pats) |-> Call("score_similarity", pats[i])] ELSE <<>>)

\* calls made by a stage whose skill_function did not return: the scorer
\* stops inside the score_similarity of the first patent
RaisedCalls(st, pats) ==
    <<Call(Capability[st], 0)>>
      \o (IF st = 4 THEN <<Call("score_similarity", pats[1])>> ELSE <<>>)

\* _run_skill 232-242: the row is created as started and committed
BeginSkill ==
    /\ pc = "begin_skill"
    /\ logs' = Append(logs, NewLog(StageOrder[stage]))
    /\ pc' = "call_skill"
    /\ UNCHANGED <<impl, config, strategy, stage, analysis, patentability, patents,
                   scored_patents, recommendation, results, exc,
                   document_text, responses, scored_batch, calls, patent_rows,
                   orchestrate_call, tasks, db>>

\* _run_skill 262-270: the capability raised; the row is failed, e re-raised.
\* RecommendationGenerator.generate has no raising path for scored input.
SkillRaises ==
    /\ pc = "call_skill"
    /\ stage \in 1..4
    /\ stage = 4 => patents # <<>>
    /\ \E m \in ErrMsgs :
          /\ logs' = FailLog(logs, m)
          /\ exc' = Some(m)
    /\ calls' = calls \o RaisedCalls(stage, patents)
    /\ pc' = "run_except"
    /\ UNCHANGED <<impl, config, strategy, stage, analysis, patentability, patents,
                   scored_patents, recommendation, results,
                   document_text, responses, scored_batch, patent_rows,
                   orchestrate_call, tasks, db>>

\* _run_skill 251-257, 262: the capability returned, the row object was set
\* to completed, and the commit of that update raised
CompletionWriteFails ==
    /\ pc = "call_skill"
    /\ stage \in 1..5
    /\ calls' = calls \o SkillCalls(stage, patents)
    /\ logs' = CompleteLog(logs)
    /\ \E m \in ErrMsgs : exc' = Some(m)
    /\ pc' = "skill_except"
    /\ UNCHANGED <<impl, config, strategy, stage, analysis, patentability, patents,
                   scored_patents, recommendation, results,
                   document_text, responses, scored_batch, patent_rows,
                   orchestrate_call, tasks, db>>

\* _run_skill 262-270 after a failed completion write: the same row is set
\* to failed with str(e), committed, e re-raised
SkillExcept ==
    /\ pc = "skill_except"
    /\ logs' = FailLog(logs, exc[1])
    /\ pc' = "run_except"
    /\ UNCHANGED <<impl, config, strategy, stage, analysis, patentability, patents,
                   scored_patents, recommendation, results, exc,
                   document_text, responses, scored_batch, calls, patent_rows,
                   orchestrate_call, tasks, db>>

\* _run_skill 244-249 with watsonx_ai.py 128: generate_text is called with
\* no timeout; a live model that never answers leaves the run inside the call
SkillHangs ==
    /\ pc = "call_skill"
    /\ stage = 4
    /\ ~AiUseStub(config)
    /\ patents # <<>>
    /\ calls' = calls \o RaisedCalls(stage, patents)
    /\ pc' = "hung"
    /\ UNCHANGED <<impl, config, strategy, stage, logs, analysis, patentability,
                   patents, scored_patents, recommendation, results, exc,
                   document_text, responses, scored_batch, patent_rows,
                   orchestrate_call, tasks, db>>

\* stage 1 returned (_run_skill 244-260): isPatentable true, false or absent
AssessReturns ==
    /\ pc = "call_skill"
    /\ stage = 1
    /\ \E ip \in {Some(TRUE), Some(FALSE), None} :
          patentability' = Some([isPatentable |-> ip])
    /\ calls' = calls \o SkillCalls(stage, patents)
    /\ logs' = CompleteLog(logs)
    /\ pc' = "save_patentability"
    /\ UNCHANGED <<impl, config, strategy, stage, analysis, patents,
                   scored_patents, recommendation, results, exc,
                   document_text, responses, scored_batch, patent_rows,
                   orchestrate_call, tasks, db>>

\* orchestrate.py 127-137/156-157 (v3_1 233-242): persist the verdict, then
\* either fall into the early exit or go on to extract_claims
SavePatentability ==
    /\ pc = "save_patentability"
    /\ analysis' = [analysis EXCEPT !.is_patentable = patentability[1].isPatentable]
    /\ IF Truthy(patentability[1].isPatentable)
       THEN /\ pc' = "begin_skill"
            /\ stage' = 2
       ELSE /\ pc' = "gate_exit"
            /\ stage' = stage
    /\ UNCHANGED <<impl, config, strategy, logs, patentability, patents,
                   scored_patents, recommendation, results, exc,
                   document_text, responses, scored_batch, calls, patent_rows,
                   orchestrate_call, tasks, db>>

\* orchestrate.py 137-154 (v3_1 242-257): the early exit
GateExit ==
    /\ pc = "gate_exit"
    /\ analysis' = [analysis EXCEPT
                      !.status = "completed",
                      !.reasoning = GatedReasoning(impl),
                      !.recommendation = Some("reject"),
                      !.novelty_score = Some(0)]
    /\ results' = Some(GatedResults(impl))
    /\ pc' = "wf_save"
    /\ UNCHANGED <<impl, config, strategy, stage, logs, patentability, patents,
                   scored_patents, recommendation, exc,
                   document_text, responses, scored_batch, calls, patent_rows,
                   orchestrate_call, tasks, db>>

\* stage 2 returned: claims
ExtractReturns ==
    /\ pc = "call_skill"
    /\ stage = 2
    /\ calls' = calls \o SkillCalls(stage, patents)
    /\ logs' = CompleteLog(logs)
    /\ pc' = "begin_skill"
    /\ stage' = 3
    /\ UNCHANGED <<impl, config, strategy, analysis, patentability, patents,
                   scored_patents, recommendation, results, exc,
                   document_text, responses, scored_batch, patent_rows,
                   orchestrate_call, tasks, db>>

\* stage 3 returned: the patents found
SearchReturns ==
    /\ pc = "call_skill"
    /\ stage = 3
    /\ \E n \in BatchSizes : patents' = [i \in 1..n |-> i]
    /\ calls' = calls \o SkillCalls(stage, patents)
    /\ logs' = CompleteLog(logs)
    /\ pc' = "begin_skill"
    /\ stage' = 4
    /\ UNCHANGED <<impl, config, strategy, analysis, patentability,
                   scored_patents, recommendation, results, exc,
                   document_text, responses, scored_batch, patent_rows,
                   orchestrate_call, tasks, db>>

\* stage 4 returned: score_multiple_patents gives one score per patent,
\* sorted by similarityScore, highest first (similarity_scorer.py 123-133)
ScoreReturns ==
    /\ pc = "call_skill"
    /\ stage = 4
    /\ \E resp \in ResponseVectors(config, Len(patents)) :
          /\ responses' = resp
          /\ scored_batch' = ScoreMultiplePatents(config, patents, resp)
    /\ scored_patents' = Scores(scored_batch')
    /\ calls' = calls \o SkillCalls(stage, patents)
    /\ logs' = CompleteLog(logs)
    /\ pc' = "begin_skill"
    /\ stage' = 5
    /\ UNCHANGED <<impl, config, strategy, analysis, patentability, patents,
                   recommendation, results, exc, document_text, patent_rows,
                   orchestrate_call, tasks, db>>

\* stage 5 returned: RecommendationGenerator.generate(claims, scored_patents)
GenerateReturns ==
    /\ pc = "call_skill"
    /\ stage = 5
    /\ \E tieUp \in BOOLEAN : recommendation' = Some(Generate(scored_patents, tieUp))
    /\ calls' = calls \o SkillCalls(stage, patents)
    /\ logs' = CompleteLog(logs)
    /\ pc' = "compile_results"
    /\ UNCHANGED <<impl, config, strategy, stage, analysis, patentability, patents,
                   scored_patents, results, exc,
                   document_text, responses, scored_batch, patent_rows,
                   orchestrate_call, tasks, db>>

\* orchestrate.py 199-211 (v3_1 295-304): the dict of a full run
CompileResults ==
    /\ pc = "compile_results"
    /\ results' = Some([extractedClaims |-> Some("claims"),
                        patents |-> Take(scored_batch, TopN),
                        noveltyScore |-> Some(recommendation[1].noveltyScore),
                        recommendation |-> Some(recommendation[1].recommendation),
                        reasoning |-> recommendation[1].reasoning,
                        skipPriorArt |-> FALSE])
    /\ pc' = "wf_save"
    /\ UNCHANGED <<impl, config, strategy, stage, logs, analysis, patentability,
                   patents, scored_patents, recommendation, exc,
                   document_text, responses, scored_batch, calls, patent_rows,
                   orchestrate_call, tasks, db>>

\* orchestrate.py 213-216 (v3_1 306-309): log a workflow_error row, re-raise
RunAnalysisExcept ==
    /\ pc = "run_except"
    /\ logs' = LogError(logs, exc)
    /\ pc' = "wf_except"
    /\ UNCHANGED <<impl, config, strategy, stage, analysis, patentability, patents,
                   scored_patents, recommendation, results, exc,
                   document_text, responses, scored_batch, calls, patent_rows,
                   orchestrate_call, tasks, db>>

\* ------------------------------------- delegated strategy, orchestrate.py
\* _run_orchestrate_workflow 290-389: the bundle is mapped onto the row
\* (novelty divided by 100) and the row is completed
OrchestrateWorkflowReturns ==
    /\ pc = "delegated"
    /\ impl = "orchestrate"
    /\ \E invocation_fails \in (IF UseStub(config) THEN {FALSE} ELSE BOOLEAN) :
         LET r == ExecuteWorkflow(config, document_text[1], invocation_fails)
         IN  /\ orchestrate_call' = Some([failed |-> invocation_fails, result |-> r])
             /\ analysis' = [analysis EXCEPT
                               !.is_patentable = Some(r.is_patentable),
                               !.extracted_claims = Some(Some("claims")),
                               !.novelty_score = Some(r.overall_novelty_score),
                               !.recommendation = Some(OrchestrateRecommendation(r)),
                               !.reasoning = OrchestrateReasoning(r),
                               !.status = "completed"]
             /\ results' = Some([extractedClaims |-> Some("claims"),
                                 patents |-> DelegatedPatents(r),
                                 noveltyScore |-> Some(r.overall_novelty_score),
                                 recommendation |-> Some(OrchestrateRecommendation(r)),
                                 reasoning |-> OrchestrateReasoning(r),
                                 skipPriorArt |-> FALSE])
    /\ pc' = "wf_save"
    /\ UNCHANGED <<impl, config, strategy, stage, logs, patentability, patents,
                   scored_patents, recommendation, exc,
                   document_text, responses, scored_batch, calls, patent_rows,
                   tasks, db>>

\* _run_orchestrate_workflow 290-300, 345, 391-394: the row lookup raises
\* before the client is called, or the commit raises after it returned;
\* workflow_error is logged, e re-raised
OrchestrateWorkflowRaises ==
    /\ pc = "delegated"
    /\ impl = "orchestrate"
    /\ \E m \in ErrMsgs :
          /\ exc' = Some(m)
          /\ logs' = LogError(logs, <<"Orchestrate workflow error: ", m>>)
    /\ \/ orchestrate_call' = orchestrate_call
       \/ \E invocation_fails \in (IF UseStub(config) THEN {FALSE} ELSE BOOLEAN) :
             orchestrate_call' =
                Some([failed |-> invocation_fails,
                      result |-> ExecuteWorkflow(config, document_text[1], invocation_fails)])
    /\ pc' = "wf_except"
    /\ UNCHANGED <<impl, config, strategy, stage, analysis, patentability, patents,
                   scored_patents, recommendation, results,
                   document_text, responses, scored_batch, calls, patent_rows,
                   tasks, db>>

\* --------------------------------- delegated strategy, orchestrate_v3_1.py
\* run_analysis 99-120: the orchestrate_workflow row is created as started
V31BeginWorkflowLog ==
    /\ pc = "delegated"
    /\ impl = "orchestrate_v3_1"
    /\ logs' = Append(logs, NewLog("orchestrate_workflow"))
    /\ pc' = "v31_execute"
    /\ UNCHANGED <<impl, config, strategy, stage, analysis, patentability, patents,
                   scored_patents, recommendation, results, exc,
                   document_text, responses, scored_batch, calls, patent_rows,
                   orchestrate_call, tasks, db>>

\* run_analysis 126, 160-166: execute_workflow(input_data) does not match the
\* client's signature (disclosure_text, disclosure_id, user_id=None) and
\* raises TypeError; workflow_error is logged and the fallback starts
V31ExecuteWorkflowRaises ==
    /\ pc = "v31_execute"
    /\ logs' = LogError(logs, <<"TypeError">>)
    /\ strategy' = "direct"
    /\ stage' = 1
    /\ pc' = "begin_skill"
    /\ UNCHANGED <<impl, config, analysis, patentability, patents,
                   scored_patents, recommendation, results, exc,
                   document_text, responses, scored_batch, calls, patent_rows,
                   orchestrate_call, tasks, db>>

Next ==
    \/ RunAnalysisWorkflowStart
    \/ RunAnalysis
    \/ BeginSkill
    \/ SkillRaises
    \/ CompletionWriteFails
    \/ SkillExcept
    \/ SkillHangs
    \/ AssessReturns
    \/ SavePatentability
    \/ GateExit
    \/ ExtractReturns
    \/ SearchReturns
    \/ ScoreReturns
    \/ GenerateReturns
    \/ CompileResults
    \/ RunAnalysisExcept
    \/ OrchestrateWorkflowReturns
    \/ OrchestrateWorkflowRaises
    \/ V31BeginWorkflowLog
    \/ V31ExecuteWorkflowRaises
    \/ RunAnalysisWorkflowSave
    \/ RunAnalysisWorkflowSaveRaises
    \/ RunAnalysisWorkflowExcept

Spec == Init /\ [][Next]_vars

\* ------------------------------- RecommendationGenerator.generate alone
\* every candidate list up to MaxPatents entries, sorted or not
InitRec ==
    /\ impl = "orchestrate"
    /\ config = [use_orchestrate |-> FALSE, api_key |-> FALSE,
                 orchestration_id |-> FALSE, sdk_installed |-> FALSE,
                 watsonx_ai |-> FALSE]
    /\ pc = "rec_input"
    /\ strategy = "none"
    /\ stage = 0
    /\ logs = <<>>
    /\ analysis = NewAnalysis
    /\ patentability = None
    /\ patents = <<>>
    /\ scored_patents \in CandidateLists
    /\ recommendation = None
    /\ results = None
    /\ exc = None
    /\ document_text = None
    /\ responses = <<>>
    /\ scored_batch = <<>>
    /\ calls = <<>>
    /\ patent_rows = <<>>
    /\ orchestrate_call = None
    /\ tasks = <<>>
    /\ db = <<>>

GenerateCall ==
    /\ pc = "rec_input"
    /\ \E tieUp \in BOOLEAN : recommendation' = Some(Generate(scored_patents, tieUp))
    /\ pc' = "rec_done"
    /\ UNCHANGED <<impl, config, strategy, stage, logs, analysis, patentability,
                   patents, scored_patents, results, exc,
                   document_text, responses, scored_batch, calls, patent_rows,
                   orchestrate_call, tasks, db>>

NextRec == GenerateCall

SpecRec == InitRec /\ [][NextRec]_vars

\* ------------------- generate on sorted lists of integer scores 0..100
\* scores behind the first one are drawn from the values around the
\* thresholds of generate
TailScores == {0, 42, 43, 70, 71, 100}

\* sorted lists as score_multiple_patents returns them (scores in tenths):
\* any integer top score, up to MaxTail further entries
IntSortedLists ==
    {s \in {<<10 * top>> \o [i \in 1..Len(tail) |-> 10 * tail[i]] :
              top \in 0..100,
              tail \in UNION {[1..n -> TailScores] : n \in 0..MaxTail}} :
        IsSortedDesc(s)}

InitInt ==
    /\ impl = "orchestrate"
    /\ config = [use_orchestrate |-> FALSE, api_key |-> FALSE,
                 orchestration_id |-> FALSE, sdk_installed |-> FALSE,
                 watsonx_ai |-> FALSE]
    /\ pc = "rec_input"
    /\ strategy = "none"
    /\ stage = 0
    /\ logs = <<>>
    /\ analysis = NewAnalysis
    /\ patentability = None
    /\ patents = <<>>
    /\ scored_patents \in IntSortedLists
    /\ recommendation = None
    /\ results = None
    /\ exc = None
    /\ document_text = None
    /\ responses = <<>>
    /\ scored_batch = <<>>
    /\ calls = <<>>
    /\ patent_rows = <<>>
    /\ orchestrate_call = None
    /\ tasks = <<>>
    /\ db = <<>>

SpecInt == InitInt /\ [][NextRec]_vars

\* ------------------------------------ several analyses on one database
\* create_analysis, run_analysis_workflow with the direct strategy, and
\* delete_analysis, for two analyses whose background tasks interleave.
\* Every row carries the analysis id the code gives it.
AnalysisIds == {1, 2}

\* what the run of one analysis meets: the assessor's verdict, the stage
\* whose capability raises (0: none) and the score of the one patent found
TaskInputs ==
    {[verdict |-> TRUE, fails_at |-> 0, top |-> 400],
     [verdict |-> TRUE, fails_at |-> 0, top |-> 860],
     [verdict |-> TRUE, fails_at |-> 3, top |-> 400],
     [verdict |-> FALSE, fails_at |-> 0, top |-> 400]}

NoTask == [pc |-> "absent", stage |-> 0, input |-> <<>>, log |-> None, inserted |-> 0]

\* analyses.py 66-86: the row is created as processing, one task scheduled
NewTask(input) ==
    [pc |-> "scheduled", stage |-> 0, input |-> input, log |-> None, inserted |-> 0]

NewAnalysisRow ==
    [status |-> "processing", is_patentable |-> None,
     novelty_score |-> None, recommendation |-> None]

Exists(a) == db.analyses[a] # None

LogRowExists(id) == \E r \in db.logs : Some(r.id) = id

\* mutant: the update goes to every row of that skill
SetLogStatusBySkill(rows, id, skill, status) ==
    {IF r.skill_name = skill THEN [r EXCEPT !.status = status] ELSE r : r \in rows}

\* log.status = ...; commit: the update of the row object _run_skill holds,
\* found by its primary key
SetLogStatus(rows, id, skill, status) ==
    {IF Some(r.id) = id THEN [r EXCEPT !.status = status] ELSE r : r \in rows}

\* the primary key of the next row task a inserts.  The code never reads the
\* integer the database hands out, only that it names one row, so the key is
\* the pair of the inserting run and its count of inserts.
FreshLogId(a) == <<a, tasks[a].inserted + 1>>

\* OrchestrateLog(analysis_id=analysis_id, skill_name=..., status=...)
InsertLog(d, a, skill, status) ==
    [d EXCEPT !.logs = @ \cup {[id |-> FreshLogId(a), analysis_id |-> a,
                                skill_name |-> skill, status |-> status]}]

\* rows of a table that do not belong to analysis a
RowsNotOf(rows, a) == {r \in rows : r.analysis_id # a}

InitMulti ==
    /\ impl = "orchestrate"
    /\ config = [use_orchestrate |-> FALSE, api_key |-> FALSE,
                 orchestration_id |-> FALSE, sdk_installed |-> FALSE,
                 watsonx_ai |-> FALSE]
    /\ pc = "multi"
    /\ strategy = "none"
    /\ stage = 0
    /\ logs = <<>>
    /\ analysis = NewAnalysis
    /\ patentability = None
    /\ patents = <<>>
    /\ scored_patents = <<>>
    /\ recommendation = None
    /\ results = None
    /\ exc = None
    /\ document_text = None
    /\ responses = <<>>
    /\ scored_batch = <<>>
    /\ calls = <<>>
    /\ patent_rows = <<>>
    /\ orchestrate_call = None
    /\ tasks = [a \in AnalysisIds |-> NoTask]
    /\ db = [analyses |-> [a \in AnalysisIds |-> None], logs |-> {}, patents |-> {}]

SingleRunUnchanged ==
    UNCHANGED <<impl, config, pc, strategy, stage, logs, analysis, patentability,
                patents, scored_patents, recommendation, results, exc,
                document_text, responses, scored_batch, calls, patent_rows,
                orchestrate_call>>

\* create_analysis (analyses.py 66-86): ids are handed out in order
CreateAnalysis(a) ==
    /\ tasks[a].pc = "absent"
    /\ \A b \in AnalysisIds : b < a => tasks[b].pc # "absent"
    /\ \E input \in TaskInputs : tasks' = [tasks EXCEPT ![a] = NewTask(input)]
    /\ db' = [db EXCEPT !.analyses[a] = Some(NewAnalysisRow)]
    /\ SingleRunUnchanged

\* delete_analysis (analyses.py 385-413): no look at the status; the row
\* goes, and with it the patents and logs it owns at that moment
DeleteAnalysis(a) ==
    /\ Exists(a)
    /\ db' = [db EXCEPT !.analyses[a] = None,
                        !.logs = RowsNotOf(@, a),
                        !.patents = RowsNotOf(@, a)]
    /\ UNCHANGED tasks
    /\ SingleRunUnchanged

\* run_analysis_workflow 126-142: load the row (return if it is gone), parse,
\* build the conductor, enter run_analysis
TaskStart(a) ==
    /\ tasks[a].pc = "scheduled"
    /\ tasks' = [tasks EXCEPT ![a].pc = IF Exists(a) THEN "begin_skill" ELSE "done",
                              ![a].stage = IF Exists(a) THEN 1 ELSE 0]
    /\ UNCHANGED db
    /\ SingleRunUnchanged

\* _run_skill 235-242: insert the started row.  For a deleted analysis the
\* insert violates the foreign key: it raises where the database enforces
\* it and leaves an orphan row where it does not.
TaskBeginSkill(a) ==
    /\ tasks[a].pc = "begin_skill"
    /\ \/ /\ db' = InsertLog(db, a, StageOrder[tasks[a].stage], "started")
          /\ tasks' = [tasks EXCEPT ![a].pc = "call_skill",
                                    ![a].log = Some(FreshLogId(a)),
                                    ![a].inserted = @ + 1]
       \/ /\ ~Exists(a)
          /\ db' = db
          /\ tasks' = [tasks EXCEPT ![a].pc = "run_except"]
    /\ SingleRunUnchanged

\* _run_skill 244-270: the capability returns or raises and the task's own
\* row is updated; an update of a row that is gone raises
TaskSkillEnds(a) ==
    /\ tasks[a].pc = "call_skill"
    /\ LET t == tasks[a]
           raised == t.input.fails_at = t.stage
       IN  IF raised \/ ~LogRowExists(t.log)
           THEN /\ db' = [db EXCEPT !.logs = SetLogStatus(@, t.log, StageOrder[t.stage], "failed")]
                /\ tasks' = [tasks EXCEPT ![a].pc = "run_except"]
           ELSE /\ db' = [db EXCEPT !.logs = SetLogStatus(@, t.log, StageOrder[t.stage], "completed")]
                /\ tasks' = [tasks EXCEPT
                               ![a].pc = IF t.stage = 1 THEN "save_patentability"
                                         ELSE IF t.stage = 5 THEN "wf_save"
                                         ELSE "begin_skill",
                               ![a].stage = IF t.stage \in 2..4 THEN t.stage + 1 ELSE t.stage]
    /\ SingleRunUnchanged

\* orchestrate.py 127-154: query the row by id; if it is there persist the
\* verdict and, on the early exit, completed / reject / 0.0
TaskSavePatentability(a) ==
    /\ tasks[a].pc = "save_patentability"
    /\ LET v == tasks[a].input.verdict
       IN  /\ db' = IF ~Exists(a) THEN db
                    ELSE IF v
                    THEN [db EXCEPT !.analyses[a][1].is_patentable = Some(v)]
                    ELSE [db EXCEPT !.analyses[a][1].is_patentable = Some(v),
                                    !.analyses[a][1].status = "completed",
                                    !.analyses[a][1].recommendation = Some("reject"),
                                    !.analyses[a][1].novelty_score = Some(0)]
           /\ tasks' = [tasks EXCEPT ![a].pc = IF v THEN "begin_skill" ELSE "wf_save",
                                     ![a].stage = IF v THEN 2 ELSE 1]
    /\ SingleRunUnchanged

\* analyses.py 144-177: Patent rows with analysis_id=analysis_id and the
\* result columns of the row loaded at the start; the update of a deleted
\* row raises and nothing is persisted
TaskSave(a) ==
    /\ tasks[a].pc = "wf_save"
    /\ LET t == tasks[a]
           gated == ~t.input.verdict
           rec == Generate(<<t.input.top>>, FALSE)
       IN  IF Exists(a)
           THEN /\ db' = [db EXCEPT
                            !.patents = IF gated THEN @
                                        ELSE @ \cup {[analysis_id |-> a,
                                                       similarity_score |-> t.input.top]},
                            !.analyses[a][1].novelty_score =
                                IF gated THEN None ELSE Some(rec.noveltyScore),
                            !.analyses[a][1].recommendation =
                                IF gated THEN Some("reject") ELSE Some(rec.recommendation),
                            !.analyses[a][1].status = "completed"]
                /\ tasks' = [tasks EXCEPT ![a].pc = "done"]
           ELSE /\ db' = db
                /\ tasks' = [tasks EXCEPT ![a].pc = "wf_except"]
    /\ SingleRunUnchanged

\* orchestrate.py 213-216, 396-410: _log_error inserts a workflow_error row;
\* a failing insert is swallowed
TaskRunExcept(a) ==
    /\ tasks[a].pc = "run_except"
    /\ \/ /\ db' = InsertLog(db, a, "workflow_error", "failed")
          /\ tasks' = [tasks EXCEPT ![a].pc = "wf_except", ![a].inserted = @ + 1]
       \/ /\ ~Exists(a)
          /\ db' = db
          /\ tasks' = [tasks EXCEPT ![a].pc = "wf_except"]
    /\ SingleRunUnchanged

\* analyses.py 179-192: query the row by id and mark it failed if it is there
TaskWorkflowExcept(a) ==
    /\ tasks[a].pc = "wf_except"
    /\ db' = IF Exists(a) THEN [db EXCEPT !.analyses[a][1].status = "failed"] ELSE db
    /\ tasks' = [tasks EXCEPT ![a].pc = "done"]
    /\ SingleRunUnchanged

NextMulti ==
    \E a \in AnalysisIds :
        \/ CreateAnalysis(a)
        \/ DeleteAnalysis(a)
        \/ TaskStart(a)
        \/ TaskBeginSkill(a)
        \/ TaskSkillEnds(a)
        \/ TaskSavePatentability(a)
        \/ TaskSave(a)
        \/ TaskRunExcept(a)
        \/ TaskWorkflowExcept(a)

SpecMulti == InitMulti /\ [][NextMulti]_vars

\* ================================================================ claims
FailedStageRows == {i \in DOMAIN logs : logs[i].status = "failed" /\ logs[i].skill_name \in Stages}

Gated == patentability # None /\ patentability[1].isPatentable = Some(FALSE)

DelegationFailed ==
    \E i \in DOMAIN logs :
        /\ logs[i].skill_name = "workflow_error"
        /\ Len(logs[i].error_message) = 2
        /\ logs[i].error_message[1] = "Orchestrate workflow error: "

C2_GatedRunPersisted ==
    (impl = "orchestrate" /\ strategy = "direct" /\ Gated /\ pc = "done") =>
        /\ analysis.status = "completed"
        /\ analysis.recommendation = Some("reject")
        /\ analysis.novelty_score = Some(0)

\* C3: for the exported conductor, a failure of the delegated strategy is
\* followed by the direct strategy: the run ends completed, or failed only
\* because a direct stage failed as well.
C3_DelegationFailureFallsBack ==
    (impl = "orchestrate" /\ DelegationFailed /\ pc = "done") =>
        \/ analysis.status = "completed"
        \/ FailedStageRows # {}

\* C4: in orchestrate_v3_1, when the delegated call threw after the
\* orchestrate_workflow row was begun, that row is failed before the
\* assess_patentability row of the fallback exists, and a fallback in which
\* no stage fails ends completed.
C4_WorkflowRowFailedBeforeFallback ==
    impl = "orchestrate_v3_1" =>
        /\ \A i, j \in DOMAIN logs :
              (logs[i].skill_name = "orchestrate_workflow" /\
               logs[j].skill_name = "assess_patentability")
                 => (i < j /\ logs[i].status = "failed")
        /\ (strategy = "direct" /\ pc = "done" /\ FailedStageRows = {})
              => analysis.status = "completed"

\* C5: when the capability call of a direct stage raises, the stage's row is
\* failed with the exception text, no later stage is started, the exception
\* reaches the caller of run_analysis (no value is returned), the Analysis is
\* never completed during such a run and ends failed with the error text in
\* reasoning.
C5_StageFailureFailsRun ==
    \A i \in FailedStageRows :
        /\ exc # None
        /\ logs[i].error_message = exc
        /\ \A j \in DOMAIN logs : j > i => logs[j].skill_name \notin Stages
        /\ results = None
        /\ pc \in {"run_except", "wf_except", "done"}
        /\ analysis.status # "completed"
        /\ pc = "done" =>
              /\ analysis.status = "failed"
              /\ analysis.reasoning = <<"Analysis failed: ">> \o logs[i].error_message

C5_Witness ==
    /\ pc = "done"
    /\ analysis.status = "failed"
    /\ \E i \in FailedStageRows : logs[i].skill_name = "search_patents"

\* C6: a stage row is never created while an earlier StepLog row of the same
\* Analysis is still in status started, and stage rows are created in the
\* fixed stage order.
C6_StagesSequential ==
    [][(Len(logs') = Len(logs) + 1 /\ logs'[Len(logs')].skill_name \in Stages)
          => /\ \A i \in DOMAIN logs : logs[i].status # "started"
             /\ logs'[Len(logs')].skill_name = StageOrder[stage']]_vars

\* C7: for every run of the exported conductor whose Analysis ends completed,
\* the StepLog rows in creation order are a prefix of the fixed stage order,
\* without gap or repetition, and none of them is left started.
C7_CompletedTraceIsPrefix ==
    (impl = "orchestrate" /\ pc = "done" /\ analysis.status = "completed") =>
        /\ Len(logs) <= Len(StageOrder)
        /\ \A i \in DOMAIN logs :
              /\ logs[i].skill_name = StageOrder[i]
              /\ logs[i].status # "started"

C7_Witness ==
    /\ impl = "orchestrate" /\ pc = "done" /\ analysis.status = "completed"
    /\ Len(logs) = 5
    /\ logs[5].skill_name = "generate_recommendation"

\* the reference rule of the recommendation calculator, in hundredths
RefNovelty(scored) ==
    LET top == scored[1]
        highSimCount == Cardinality({i \in 1..Len(scored) : scored[i] > 700})
        raw == 10000 - 7 * top - 500 * highSimCount
    IN  IF raw < 0 THEN 0 ELSE IF raw > 10000 THEN 10000 ELSE raw

RefBand(n) == IF n >= 7000 THEN "pursue" ELSE IF n >= 4000 THEN "reconsider" ELSE "reject"

\* C8 (as stated): generate returns the reference rule's value for every
\* candidate list: 100 and pursue for the empty list, otherwise
\* clamp(100 - 0.7*topScore - 5*highSimCount) and its band.
C8_MatchesReferenceRule ==
    pc = "rec_done" =>
        IF scored_patents = <<>>
        THEN /\ recommendation[1].noveltyScore = 10000
             /\ recommendation[1].recommendation = "pursue"
        ELSE /\ recommendation[1].noveltyScore = RefNovelty(scored_patents)
             /\ recommendation[1].recommendation = RefBand(RefNovelty(scored_patents))

\* C8 (amended): the returned noveltyScore is the reference value rounded to
\* one decimal place (equal to it when it has at most one decimal), and the
\* recommendation is the band of the unrounded reference value.
C8_MatchesReferenceRuleRounded ==
    pc = "rec_done" =>
        IF scored_patents = <<>>
        THEN /\ recommendation[1].noveltyScore = 10000
             /\ recommendation[1].recommendation = "pursue"
        ELSE /\ recommendation[1].noveltyScore % 10 = 0
             /\ recommendation[1].noveltyScore - RefNovelty(scored_patents) \in -5..5
             /\ recommendation[1].recommendation = RefBand(RefNovelty(scored_patents))

C8_Witness ==
    /\ pc = "rec_done"
    /\ scored_patents = <<850, 720, 400>>
    /\ recommendation[1].noveltyScore = 3050
    /\ recommendation[1].recommendation = "reject"

\* C9: the returned noveltyScore lies in [0,100], the recommendation is one of
\* the three categories, and the returned values agree with the bands:
\* noveltyScore >= 70 iff pursue, 40 <= noveltyScore < 70 iff reconsider,
\* noveltyScore < 40 iff reject.
C9_ReturnedValuesAgreeWithBands ==
    pc = "rec_done" =>
        LET n == recommendation[1].noveltyScore
            r == recommendation[1].recommendation
        IN  /\ n >= 0 /\ n <= 10000
            /\ r \in {"pursue", "reconsider", "reject"}
            /\ (n >= 7000) <=> (r = "pursue")
            /\ (n >= 4000 /\ n < 7000) <=> (r = "reconsider")
            /\ (n < 4000) <=> (r = "reject")

\* C10: of two non-empty candidate lists with the same highSimCount, the one
\* with the larger topScore never gets the larger noveltyScore.
C10_MonotoneInTopScore ==
    (pc = "rec_done" /\ scored_patents # <<>>) =>
        \A other \in CandidateLists \ {<<>>} : \A tieUp \in BOOLEAN :
            (/\ Cardinality({i \in DOMAIN other : other[i] > 700})
                  = Cardinality({i \in DOMAIN scored_patents : scored_patents[i] > 700})
             /\ other[1] > scored_patents[1])
               => Generate(other, tieUp).noveltyScore <= recommendation[1].noveltyScore

C10_Witness ==
    /\ pc = "rec_done"
    /\ scored_patents = <<400, 850>>
    /\ recommendation[1].noveltyScore = 6700
    /\ Generate(<<429, 720>>, FALSE).noveltyScore = 6500

\* the run took the stages past the gate (isPatentable was truthy)
PassedGate == patentability # None /\ Truthy(patentability[1].isPatentable)

FailedRows == {i \in DOMAIN logs : logs[i].status = "failed"}

WorkflowRows == {i \in DOMAIN logs : logs[i].skill_name = "orchestrate_workflow"}

\* C11: once score_multiple_patents has returned, score_similarity was called
\* exactly once for every patent of the batch, the returned list has exactly
\* one entry per patent (each carrying the patent it was built from), it is
\* non-increasing in similarityScore, and the list handed to generate starts
\* with the maximum score.
C11_OneEntryPerCandidateSortedDesc ==
    (strategy = "direct" /\ stage = 5) =>
        /\ Len(scored_batch) = Len(patents)
        /\ \A i \in DOMAIN patents :
              /\ Cardinality({j \in DOMAIN scored_batch :
                                 scored_batch[j].patent = patents[i]}) = 1
              /\ Cardinality({k \in DOMAIN calls :
                                 calls[k] = Call("score_similarity", patents[i])}) = 1
        /\ \A j \in 1..(Len(scored_batch) - 1) :
              scored_batch[j].similarityScore >= scored_batch[j + 1].similarityScore
        /\ Len(scored_patents) = Len(scored_batch)
        /\ \A j \in DOMAIN scored_batch :
              /\ scored_patents[j] = scored_batch[j].similarityScore
              /\ scored_patents[1] >= scored_batch[j].similarityScore

C11_Witness ==
    /\ strategy = "direct" /\ stage = 5
    /\ Len(scored_batch) = 3
    /\ scored_batch[1].patent = 3
    /\ scored_batch[3].patent = 1
    /\ scored_batch[1].similarityScore > scored_batch[3].similarityScore

\* C12: every entry score_multiple_patents returns has a similarityScore
\* between 0 and 100, whatever the model response contained.
C12_ScoresInRange ==
    \A j \in DOMAIN scored_batch :
        /\ scored_batch[j].similarityScore >= 0
        /\ scored_batch[j].similarityScore <= 1000

\* C13: in a batch scored with the live model, exactly the patents whose
\* provider call or response parsing failed carry the keyword-overlap score,
\* the others carry the provider's score, the batch has one entry per patent
\* and the score_similarity row is completed.
C13_FallbackExactlyForFailedCandidates ==
    (strategy = "direct" /\ stage = 5 /\ ~AiUseStub(config)) =>
        /\ Len(scored_batch) = Len(patents)
        /\ \A j \in DOMAIN scored_batch :
              LET e == scored_batch[j]
                  o == responses[e.patent]
              IN  /\ o.kind \in {"call_failed", "unparsable"} =>
                        /\ e.overlappingConcepts = "Keyword analysis fallback"
                        /\ e.similarityScore = KeywordMatchingFallback(e.patent).similarityScore
                  /\ o.kind = "score" =>
                        /\ e.overlappingConcepts # "Keyword analysis fallback"
                        /\ e.similarityScore = o.value
        /\ \E i \in DOMAIN logs :
              logs[i].skill_name = "score_similarity" /\ logs[i].status = "completed"

\* C14: after a completed direct run that passed the gate, at most 20 Patent
\* rows are persisted; they are the first 20 entries of the sorted scored list
\* (all entries when there are fewer), no dropped entry scores higher than a
\* kept one, and the persisted novelty score and recommendation are those
\* generate computes from the whole scored list.
C14_TopTwentyPersisted ==
    (pc = "done" /\ analysis.status = "completed" /\ strategy = "direct" /\ PassedGate) =>
        /\ Len(patent_rows) <= 20
        /\ Len(patent_rows) = (IF Len(scored_batch) < 20 THEN Len(scored_batch) ELSE 20)
        /\ \A i \in DOMAIN patent_rows :
              /\ patent_rows[i].patent_id = scored_batch[i].patent
              /\ patent_rows[i].similarity_score = scored_batch[i].similarityScore
              /\ \A j \in DOMAIN scored_batch :
                    j > Len(patent_rows) =>
                       scored_batch[j].similarityScore <= patent_rows[i].similarity_score
        /\ \E tieUp \in BOOLEAN :
              LET whole == Generate(Scores(scored_batch), tieUp)
              IN  /\ analysis.novelty_score = Some(whole.noveltyScore)
                  /\ analysis.recommendation = Some(whole.recommendation)

C14_Witness ==
    /\ pc = "done" /\ analysis.status = "completed" /\ strategy = "direct" /\ PassedGate
    /\ Len(scored_batch) > 20
    /\ Len(patent_rows) = 20
    /\ scored_batch[Len(scored_batch)].similarityScore < patent_rows[20].similarity_score

\* C15: a stage row that has been set to completed or to failed keeps that
\* status in every later step, also when the commit of the completion fails.
C15_RowStatusSetOnce ==
    [][\A i \in DOMAIN logs :
          (logs[i].skill_name \in Stages /\ logs[i].status # "started")
             => logs'[i].status = logs[i].status]_vars

\* C16: after a run in which a stage failed has ended, exactly one row of the
\* Analysis has status failed, and it is the row of the failing stage.
C16_ExactlyOneFailedRow ==
    (pc = "done" /\ FailedStageRows # {}) =>
        /\ Cardinality(FailedRows) = 1
        /\ FailedRows = FailedStageRows

\* C17: once the delegated call of a run has returned or thrown, the run has
\* exactly one orchestrate_workflow row and that row is completed or failed.
C17_DelegatedRunHasTerminalWorkflowRow ==
    ((strategy = "delegated" \/ WorkflowRows # {}) /\ pc \notin {"delegated", "v31_execute"}) =>
        /\ Cardinality(WorkflowRows) = 1
        /\ \A i \in WorkflowRows : logs[i].status \in {"completed", "failed"}

\* C18: every Analysis that ends completed has a recommendation among pursue,
\* reconsider, reject, and after a delegated run its novelty score is the
\* workflow's score on the 0-100 scale.
C18_CanonicalConvention ==
    (pc = "done" /\ analysis.status = "completed") =>
        /\ analysis.recommendation \in {Some("pursue"), Some("reconsider"), Some("reject")}
        /\ strategy = "delegated" =>
              analysis.novelty_score = Some(100 * orchestrate_call[1].result.overall_novelty_score)

\* C19: a run can only come to rest with its Analysis in a terminal status:
\* in every state where no step of the run is possible any more, the status
\* is completed or failed.
C19_RunRestsOnlyWhenTerminal ==
    (~ENABLED Next) => analysis.status \in {"completed", "failed"}

\* C20: a run whose parsed disclosure text is empty writes no StepLog row and
\* calls no capability.
C20_EmptyTextRejected ==
    document_text = Some("") => (logs = <<>> /\ calls = <<>>)

\* C21: in services/orchestrate.py the strategy is set once, by the branch at
\* the top of run_analysis, to delegated exactly when USE_WATSONX_ORCHESTRATE
\* is true and API key and orchestration id are set; a delegated run starts
\* no stage and calls no capability, a direct run never calls the workflow.
C21_StrategyDecidedOnce ==
    [][impl = "orchestrate" =>
          /\ strategy' # strategy =>
                /\ strategy = "none"
                /\ pc = "run_analysis"
                /\ strategy' = (IF config.use_orchestrate /\ config.api_key
                                     /\ config.orchestration_id
                                THEN "delegated" ELSE "direct")
          /\ strategy' = "delegated" =>
                /\ calls' = <<>>
                /\ \A i \in DOMAIN logs' : logs'[i].skill_name \notin Stages
          /\ strategy' = "direct" => orchestrate_call' = None]_vars

C21_Witness ==
    /\ impl = "orchestrate" /\ strategy = "delegated" /\ pc = "done"
    /\ config.use_orchestrate
    /\ exc # None
    /\ analysis.status = "failed"

\* C24: once the Analysis status is completed or failed it never changes
\* again, also when a later persistence step of the run fails.
C24_TerminalStatusAbsorbing ==
    [][analysis.status # "processing" => analysis'.status = analysis.status]_vars

\* C25: every StepLog row has a stage name from the fixed set of the five
\* stages plus orchestrate_workflow.
C25_StageNamesFromFixedSet ==
    \A i \in DOMAIN logs : logs[i].skill_name \in Stages \cup {"orchestrate_workflow"}

\* C26: after a direct run has failed in a stage later than
\* assess_patentability, the Analysis is failed with the error in reasoning,
\* the persisted verdict is still the assessor's, novelty score,
\* recommendation and claims are unset and no Patent row exists.
C26_FailureKeepsPartialResults ==
    (/\ strategy = "direct" /\ pc = "done"
     /\ \E i \in FailedStageRows : logs[i].skill_name # "assess_patentability") =>
        /\ analysis.status = "failed"
        /\ analysis.reasoning = <<"Analysis failed: ">> \o exc
        /\ patentability # None
        /\ analysis.is_patentable = patentability[1].isPatentable
        /\ analysis.is_patentable = Some(TRUE)
        /\ analysis.novelty_score = None
        /\ analysis.recommendation = None
        /\ analysis.extracted_claims = None
        /\ patent_rows = <<>>

C26_Witness ==
    /\ strategy = "direct" /\ pc = "done"
    /\ \E i \in FailedStageRows : logs[i].skill_name = "score_similarity"
    /\ analysis.is_patentable = Some(TRUE)
    /\ analysis.status = "failed"

\* C27: when the assessor result has isPatentable missing or null the direct
\* strategy behaves as for false: no stage after assess_patentability is
\* started, no further capability is called, and the early exit persists
\* recommendation reject.
C27_MissingVerdictGatesLikeFalse ==
    (/\ strategy = "direct" /\ patentability # None
     /\ patentability[1].isPatentable \in {None, Some(FALSE)}) =>
        /\ stage = 1
        /\ pc \in {"save_patentability", "gate_exit", "wf_save", "wf_except", "done"}
        /\ \A i \in DOMAIN logs :
              logs[i].skill_name \in Stages => logs[i].skill_name = "assess_patentability"
        /\ calls = <<Call("assess_patentability", 0)>>
        /\ pc \in {"wf_save", "wf_except", "done"} =>
              analysis.recommendation = Some("reject")

C27_Witness ==
    /\ strategy = "direct" /\ patentability # None
    /\ patentability[1].isPatentable = None
    /\ pc = "done"
    /\ analysis.status = "completed"
    /\ analysis.recommendation = Some("reject")

\* C28: a completed delegated run of services/orchestrate.py persists the
\* recommendation, novelty score and candidates that the same run would have
\* produced for any other disclosure text.
C28_DelegatedResultIgnoresText ==
    (impl = "orchestrate" /\ strategy = "delegated" /\ pc = "done"
       /\ analysis.status = "completed") =>
        \A text \in DocumentTexts :
            LET r == ExecuteWorkflow(config, text, orchestrate_call[1].failed)
            IN  /\ analysis.recommendation = Some(OrchestrateRecommendation(r))
                /\ analysis.novelty_score = Some(r.overall_novelty_score)
                /\ results[1].patents = DelegatedPatents(r)
                /\ Len(patent_rows) = r.top_patents

C28_Witness ==
    /\ impl = "orchestrate" /\ strategy = "delegated" /\ pc = "done"
    /\ analysis.status = "completed"
    /\ document_text = Some("")
    /\ analysis.novelty_score = Some(72)
    /\ Len(patent_rows) = 3

\* C30: for the conductor of services/orchestrate.py, every execute_workflow
\* call returns a bundle with status completed, the stub bundle when the
\* client is in stub mode or the real invocation failed, and a delegated run
\* that got past _run_orchestrate_workflow has such a bundle.
C30_ClientCallAlwaysReturnsBundle ==
    impl = "orchestrate" =>
        /\ orchestrate_call # None =>
              /\ orchestrate_call[1].result.status = "completed"
              /\ (UseStub(config) \/ orchestrate_call[1].failed) =>
                    orchestrate_call[1].result = StubOrchestration
        /\ (strategy = "delegated" /\ pc \in {"wf_save", "done"} /\ exc = None) =>
              orchestrate_call # None

C30_Witness ==
    /\ impl = "orchestrate" /\ pc = "done"
    /\ orchestrate_call # None
    /\ ~UseStub(config)
    /\ orchestrate_call[1].failed
    /\ orchestrate_call[1].result.is_stub
    /\ analysis.status = "completed"

\* C29: for a non-empty list sorted non-increasing with integer scores in
\* 0..100, generate returns pursue exactly when the top score is at most 42
\* and returns reject only when the top score is greater than 70.
C29_BandsByTopScore ==
    pc = "rec_done" =>
        /\ (recommendation[1].recommendation = "pursue") <=> (scored_patents[1] <= 420)
        /\ (recommendation[1].recommendation = "reject") => (scored_patents[1] > 700)

C29_Witness ==
    /\ pc = "rec_done"
    /\ scored_patents = <<700, 700, 700, 430>>
    /\ recommendation[1].recommendation = "reconsider"

\* ---- helpers of C22 and C23
OwnedLogs(d, a) == {r \in d.logs : r.analysis_id = a}

OwnedPatents(d, a) == {r \in d.patents : r.analysis_id = a}

\* a step of the run of analysis a (or the request that created it)
RunStep(a) == tasks'[a] # tasks[a]

\* what a run with this input leaves behind when nothing else touches the
\* database: the Analysis row, the (skill, status) pairs of its log rows,
\* the scores of its Patent rows
AloneAnalysis(input) ==
    IF ~input.verdict
    THEN [status |-> "completed", is_patentable |-> Some(FALSE),
          novelty_score |-> None, recommendation |-> Some("reject")]
    ELSE IF input.fails_at # 0
    THEN [status |-> "failed",
          is_patentable |-> IF input.fails_at > 1 THEN Some(TRUE) ELSE None,
          novelty_score |-> None, recommendation |-> None]
    ELSE [status |-> "completed", is_patentable |-> Some(TRUE),
          novelty_score |-> Some(Generate(<<input.top>>, FALSE).noveltyScore),
          recommendation |-> Some(Generate(<<input.top>>, FALSE).recommendation)]

AloneLogs(input) ==
    IF ~input.verdict THEN {<<StageOrder[1], "completed">>}
    ELSE IF input.fails_at # 0
    THEN {<<StageOrder[i], "completed">> : i \in 1..(input.fails_at - 1)}
         \cup {<<StageOrder[input.fails_at], "failed">>, <<"workflow_error", "failed">>}
    ELSE {<<StageOrder[i], "completed">> : i \in 1..5}

AlonePatents(input) ==
    IF input.verdict /\ input.fails_at = 0 THEN {input.top} ELSE {}

C22_FinalAsAlone ==
    \A a \in AnalysisIds :
        (tasks[a].pc = "done" /\ Exists(a)) =>
            /\ db.analyses[a][1] = AloneAnalysis(tasks[a].input)
            /\ {<<r.skill_name, r.status>> : r \in OwnedLogs(db, a)}
                   = AloneLogs(tasks[a].input)
            /\ {r.similarity_score : r \in OwnedPatents(db, a)}
                   = AlonePatents(tasks[a].input)

C22_OthersUntouched ==
    \A a \in AnalysisIds :
        RunStep(a) =>
            \A b \in AnalysisIds \ {a} :
                /\ db'.analyses[b] = db.analyses[b]
                /\ OwnedLogs(db', b) = OwnedLogs(db, b)
                /\ OwnedPatents(db', b) = OwnedPatents(db, b)

\* C22: with the runs of two analyses interleaved in any order, a step of
\* one run leaves the other analysis's row, log rows and patent rows as they
\* were (so every row it creates or updates carries its own analysis id),
\* and an analysis whose run has ended holds the Analysis row, log rows and
\* patent rows that its run writes when it executes alone.
C22_InterleavedRunsIsolated == [](C22_FinalAsAlone) /\ [][C22_OthersUntouched]_vars

\* both runs are under way in the same stage: analysis 1 has its search row
\* started while analysis 2 already completed its own
C22_Witness ==
    /\ tasks[1].pc = "call_skill" /\ tasks[1].stage = 3
    /\ tasks[2].pc \notin {"absent", "scheduled", "done"}
    /\ \E r \in OwnedLogs(db, 1) : r.skill_name = StageOrder[3] /\ r.status = "started"
    /\ \E r \in OwnedLogs(db, 2) : r.skill_name = StageOrder[3] /\ r.status = "completed"

\* C23: a run is started for an analysis at most once, and while the
\* Analysis row reads processing no step other than a step of its own run
\* changes or removes that row.
C23_SingleWriterWhileProcessing ==
    [][\A a \in AnalysisIds :
          /\ (tasks'[a].pc = "scheduled" /\ tasks[a].pc # "scheduled")
                 => tasks[a].pc = "absent"
          /\ (Exists(a) /\ db.analyses[a][1].status = "processing" /\ ~RunStep(a))
                 => db'.analyses[a] = db.analyses[a]]_vars

====
